---- MODULE Spec2Model ----
(***************************************************************************)
(* Stereo display application (src/scripts/app.js, audio/terminal          *)
(* revision, lines 1439-2273): the audio source manager (microphone, file, *)
(* demo), the requestAnimationFrame-driven EQ scheduler and the per-frame  *)
(* level / peak / segment pipeline.                                        *)
(*                                                                         *)
(* The JavaScript `state` object is the variable `state`, the cached DOM   *)
(* (`elements`, `segments`) is `elements` and `segments`, and everything   *)
(* the browser holds on the program's behalf (open media streams, loaded   *)
(* audio elements, graph connections, pending frame callbacks, suspended   *)
(* async calls) is `host`; `now` is the timestamp of the latest frame.      *)
(* Handlers run to completion (one event-loop task each); an `await` ends  *)
(* the task and the continuation is a later task.  Levels are fixed-point  *)
(* numbers in units of 1/Scale.                                            *)
(***************************************************************************)
EXTENDS Integers, Sequences, FiniteSets, TLC

VARIABLES state, elements, segments, host, now

vars == <<state, elements, segments, host, now>>

\* ------------------------------------------------------------------------
\* Configuration (CONFIG) and bounds
\* ------------------------------------------------------------------------

\* JavaScript null, for fields that otherwise hold an object id (1, 2, ...).
Null == 0

\* Fixed-point unit: a level x in [0,1] is the integer x * Scale.
Scale == 1000

eqBarCount == 16

eqSegmentCount == 12

eqUpdateInterval == 50

\* CONFIG.smoothing = 0.6, in tenths.
smoothing == 6

\* CONFIG.peakDecay = 0.02, in units of 1/Scale.
peakDecay == 20

peakHoldTime == 500

\* Object ids available to the host for each kind of resource
\* (media streams, audio elements, source nodes).
MaxRes == 2

\* Microphone activations that may be suspended at the same time.
MaxPending == 2

\* Frame timestamps are multiples of half the update interval, up to
\* MaxFrames of them.
MaxFrames == 5

Ids == 1..MaxRes

\* The bands whose state is tracked.  updateEQBars and getEQLevels treat every
\* band alone (band i reads and writes index i only), so the other bands of
\* 0..eqBarCount-1 are left out of the state.
Bands == {i \in 0..(eqBarCount - 1) : i = 0}

Segs == 0..(eqSegmentCount - 1)

Min(a, b) == IF a < b THEN a ELSE b

Max(a, b) == IF a > b THEN a ELSE b

\* F(v), with v evaluated once before F reads it (the value is F(v) however
\* it is evaluated; this only keeps the evaluation from repeating v).
Once(v, F(_)) == CHOOSE r \in {F(x) : x \in {v}} : TRUE

\* The machine: the program state together with the DOM cache and the host.
M == [s |-> state, e |-> elements, g |-> segments, h |-> host]

\* The smallest id of Ids not in `used` (a fresh object), Null if none is left.
Fresh(used) ==
    IF Ids \ used = {} THEN Null
    ELSE CHOOSE i \in Ids \ used : \A j \in Ids \ used : i <= j

\* ------------------------------------------------------------------------
\* Output display and log
\* ------------------------------------------------------------------------

SetOutput(m, text) == [m EXCEPT !.s.output = text]

\* state.logs grows without bound; the model keeps its last entry.
AddLog(m, message) == [m EXCEPT !.s.logs = message]

\* ------------------------------------------------------------------------
\* Web Audio setup
\* ------------------------------------------------------------------------

ZeroLevels == [i \in Bands |-> 0]

\* initAudioContext; ctxState is the state the browser creates the context in.
InitAudioContext(m, ctxState) ==
    IF m.s.audioContext # Null THEN m
    ELSE AddLog([m EXCEPT !.s.audioContext = 1,
                          !.s.analyser = 1,
                          !.s.frequencyData = 1,
                          !.h.ctxState = ctxState,
                          !.s.smoothedLevels = ZeroLevels,
                          !.s.peakLevels = ZeroLevels,
                          !.s.peakHoldTimes = ZeroLevels],
                "AUDIO ENGINE INITIALIZED")

\* ------------------------------------------------------------------------
\* Audio source management
\* ------------------------------------------------------------------------

StopTracks(m) ==
    IF m.s.micStream # Null
    THEN [m EXCEPT !.h.liveStreams = @ \ {m.s.micStream}, !.s.micStream = Null]
    ELSE m

ClearElement(m) ==
    IF m.s.audioElement # Null
    THEN [m EXCEPT !.h.loadedElements = @ \ {m.s.audioElement},
                   !.h.playing = @ \ {m.s.audioElement},
                   !.s.audioElement = Null]
    ELSE m

DisconnectSource(m) ==
    IF m.s.audioSource # Null
    THEN [m EXCEPT !.h.connectedNodes = @ \ {m.s.audioSource},
                   !.s.audioSource = Null]
    ELSE m

\* Mutant of StopMicrophone: the MIC button keeps its active look.
StopMicrophoneKeepsButton(m) ==
    LET m2 == DisconnectSource(StopTracks(m))
        m3 == [m2 EXCEPT !.s.audioMode = "demo"]
    IN  AddLog(SetOutput(m3, "READY..."), "MICROPHONE DISCONNECTED")

\* Mutant of StopAudioSource: the audio element is left loaded and referenced
\* (what stopMicrophone releases, and no more).
StopAudioSourceKeepsElement(m) ==
    LET m3 == DisconnectSource(StopTracks(m))
    IN  [m3 EXCEPT !.e.micBtn = [active |-> FALSE, text |-> "MIC"],
                   !.e.playPauseBtn = [disabled |-> TRUE, text |-> "PLAY"],
                   !.s.audioMode = "demo",
                   !.s.isPlaying = FALSE]

StopAudioSource(m) ==
    LET m3 == DisconnectSource(ClearElement(StopTracks(m)))
    IN  [m3 EXCEPT !.e.micBtn = [active |-> FALSE, text |-> "MIC"],
                   !.e.playPauseBtn = [disabled |-> TRUE, text |-> "PLAY"],
                   !.s.audioMode = "demo",
                   !.s.isPlaying = FALSE]

StopMicrophone(m) ==
    LET m2 == DisconnectSource(StopTracks(m))
        m3 == [m2 EXCEPT !.s.audioMode = "demo",
                         !.e.micBtn = [active |-> FALSE, text |-> "MIC"]]
    IN  AddLog(SetOutput(m3, "READY..."), "MICROPHONE DISCONNECTED")

\* ------------------------------------------------------------------------
\* Microphone input: toggleMicrophone, one definition per task
\* ------------------------------------------------------------------------

Suspend(m, at) == [m EXCEPT !.h.suspended[at] = @ + 1]

Resumed(m, at) == [m EXCEPT !.h.suspended[at] = @ - 1]

\* The catch block of toggleMicrophone.
MicCatch(m) == SetOutput(AddLog(m, "MIC ERROR"), "MIC ACCESS DENIED")

\* toggleMicrophone up to its first await.
ToggleMicrophoneCall(m, ctxState) ==
    IF m.s.audioMode = "mic" THEN StopMicrophone(m)
    ELSE LET m1 == InitAudioContext(StopAudioSource(m), ctxState)
         IN  IF m1.h.ctxState = "suspended"
             THEN Suspend(m1, "resume")
             ELSE Suspend(m1, "getUserMedia")

\* audioContext.resume() fulfilled: the call goes on to getUserMedia.
ToggleMicrophoneResumed(m) ==
    Suspend([Resumed(m, "resume") EXCEPT !.h.ctxState = "running"], "getUserMedia")

\* getUserMedia fulfilled with a new stream; sourceOk: createMediaStreamSource
\* returns a node (otherwise it throws).
ToggleMicrophoneStream(m, sourceOk) ==
    LET stream == Fresh(m.h.liveStreams \cup {m.s.micStream})
        m1 == [Resumed(m, "getUserMedia") EXCEPT !.h.liveStreams = @ \cup {stream},
                                                 !.s.micStream = stream]
        node == Fresh(m.h.connectedNodes \cup {m.s.audioSource})
        m2 == [m1 EXCEPT !.s.audioSource = node,
                         !.h.connectedNodes = @ \cup {node},
                         !.s.audioMode = "mic",
                         !.e.micBtn = [active |-> TRUE, text |-> "MIC ON"]]
    IN  IF sourceOk
        THEN AddLog(SetOutput(m2, "MICROPHONE ACTIVE"), "MICROPHONE CONNECTED")
        ELSE MicCatch(m1)

\* audioContext.resume() or getUserMedia rejected.
ToggleMicrophoneRejected(m, at) == MicCatch(Resumed(m, at))

\* ------------------------------------------------------------------------
\* Audio file playback
\* ------------------------------------------------------------------------

\* handleFileSelect with a file present; sourceOk: createMediaElementSource
\* returns a node (otherwise it throws and the handler ends there).
HandleFileSelect(m, ctxState, sourceOk) ==
    LET m1 == InitAudioContext(StopAudioSource(m), ctxState)
        m2 == ClearElement(m1)
        el == Fresh(m.h.loadedElements \cup {m.s.audioElement})
        m3 == [m2 EXCEPT !.s.audioElement = el, !.h.loadedElements = @ \cup {el}]
        node == Fresh(m.h.connectedNodes \cup {m.s.audioSource})
        m4 == [m3 EXCEPT !.s.audioSource = node,
                         !.h.connectedNodes = @ \cup {node},
                         !.h.destConnected = TRUE,
                         !.s.audioMode = "file",
                         !.s.isPlaying = FALSE,
                         !.e.playPauseBtn = [disabled |-> FALSE, text |-> "PLAY"]]
    IN  IF sourceOk THEN AddLog(SetOutput(m4, "FILE NAME"), "LOADED") ELSE m3

\* The 'ended' listener of the audio element el, run when its playback reaches
\* the end.
OnEnded(m, el) ==
    AddLog([m EXCEPT !.h.playing = @ \ {el},
                     !.s.isPlaying = FALSE,
                     !.e.playPauseBtn.text = "PLAY"],
           "PLAYBACK COMPLETE")

\* togglePlayPause from its test of state.isPlaying on (lines 1715-1725). With
\* state.audioElement null, the call of pause() or play() throws before
\* anything is written.
PlayOrPause(m) ==
    IF m.s.audioElement = Null THEN m
    ELSE IF m.s.isPlaying
    THEN AddLog([m EXCEPT !.h.playing = @ \ {m.s.audioElement},
                          !.s.isPlaying = FALSE,
                          !.e.playPauseBtn.text = "PLAY"],
                "PAUSED")
    ELSE AddLog([m EXCEPT !.h.playing = @ \cup {m.s.audioElement},
                          !.s.isPlaying = TRUE,
                          !.e.playPauseBtn.text = "PAUSE"],
                "PLAYING")

\* togglePlayPause up to its await.
TogglePlayPauseCall(m) ==
    IF m.s.audioElement = Null THEN m
    ELSE IF m.s.audioContext # Null /\ m.h.ctxState = "suspended"
    THEN Suspend(m, "togglePlayPause")
    ELSE PlayOrPause(m)

\* audioContext.resume() fulfilled: the call goes on to play or pause.
TogglePlayPauseResumed(m) ==
    PlayOrPause([Resumed(m, "togglePlayPause") EXCEPT !.h.ctxState = "running"])

\* audioContext.resume() rejected: the call ends there.
TogglePlayPauseRejected(m) == Resumed(m, "togglePlayPause")

\* ------------------------------------------------------------------------
\* EQ visualizer: levels
\* ------------------------------------------------------------------------

\* Band edges in Hz (frequencyBands) and per-band gain in tenths (bandGains).
frequencyBands ==
    <<20, 40, 60, 90, 130, 180, 250, 350,
      500, 700, 1000, 1400, 2000, 3500, 6000, 12000, 20000>>

bandGains ==
    <<10, 10, 10, 11, 12, 13, 14, 15,
      16, 18, 20, 22, 25, 28, 32, 36>>

\* analyser.frequencyBinCount (fftSize / 2), and the audioContext.sampleRate of
\* the host unless a specification says otherwise.
binCount == 256

sampleRate == 48000

nyquist(rate) == rate \div 2

\* Math.floor(a / b) and Math.ceil(a / b) for b > 0.
FloorDiv(a, b) == a \div b

CeilDiv(a, b) == (a + b - 1) \div b

LowBin(rate, i) == FloorDiv(frequencyBands[i + 1] * binCount, nyquist(rate))

HighBin(rate, i) ==
    Min(CeilDiv(frequencyBands[i + 2] * binCount, nyquist(rate)), binCount - 1)

RECURSIVE SumBins(_, _, _)
SumBins(data, lo, hi) ==
    IF lo > hi THEN 0
    ELSE IF lo = hi THEN data[lo]
    ELSE LET mid == (lo + hi) \div 2
         IN  SumBins(data, lo, mid) + SumBins(data, mid + 1, hi)

\* Mutant of LiveLevel: the level is not clamped after the gain.
LiveLevelUnclamped(rate, data, i) ==
    LET sum == SumBins(data, LowBin(rate, i), HighBin(rate, i))
        count == IF HighBin(rate, i) >= LowBin(rate, i)
                 THEN HighBin(rate, i) - LowBin(rate, i) + 1 ELSE 0
    IN  IF count > 0 THEN (sum * Scale * bandGains[i + 1]) \div (count * 255 * 10) ELSE 0

\* The band level before smoothing: average, normalise by 255, gain, clamp.
LiveLevel(rate, data, i) ==
    LET sum == SumBins(data, LowBin(rate, i), HighBin(rate, i))
        count == IF HighBin(rate, i) >= LowBin(rate, i)
                 THEN HighBin(rate, i) - LowBin(rate, i) + 1 ELSE 0
        level == IF count > 0 THEN (sum * Scale * bandGains[i + 1]) \div (count * 255 * 10)
                 ELSE 0
    IN  Min(Scale, level)

\* Mutant of SmoothWith: the current level is not weighted by 1 - alpha.
SmoothWithUnweighted(alpha, prev, cur) == (prev * alpha + cur * 10) \div 10

\* smoothed = previous * smoothing + current * (1 - smoothing), for a smoothing
\* factor of alpha tenths.
SmoothWith(alpha, prev, cur) == (prev * alpha + cur * (10 - alpha)) \div 10

Smooth(prev, cur) == SmoothWith(smoothing, prev, cur)

\* The live branch is taken when a source is active and the analyser exists.
LiveBranch(m) ==
    m.s.audioMode # "demo" /\ m.s.analyser # Null /\ m.s.frequencyData # Null

\* getEQLevels: the new smoothedLevels and the levels returned.  data is the
\* analyser's byte snapshot; base[i] is 0.35 + wave1 + wave2 + wave3 + noise
\* of the demo branch (it depends on the timestamp and on Math.random()).
SmoothedAfter(m, data, base) ==
    [i \in Bands |->
        IF LiveBranch(m) THEN Smooth(m.s.smoothedLevels[i], LiveLevel(m.h.sampleRate, data, i))
        ELSE Smooth(m.s.smoothedLevels[i], base[i])]

GetEQLevels(m, data, base) ==
    [i \in Bands |->
        IF LiveBranch(m) THEN SmoothedAfter(m, data, base)[i]
        ELSE Max(Scale \div 20, Min(Scale, SmoothedAfter(m, data, base)[i]))]

\* ------------------------------------------------------------------------
\* EQ visualizer: peaks and segments
\* ------------------------------------------------------------------------

LitCount(level) == FloorDiv(level * eqSegmentCount, Scale)

\* Mutant of PeakAfter: a peak is held for ever and never decays.
PeakAfterNoDecay(peak, hold, level, timestamp) ==
    IF level >= peak THEN level ELSE peak

\* Mutant of PeakAfter: an expired peak falls by peakDecay whatever the level.
PeakAfterPlainDecay(peak, hold, level, timestamp) ==
    IF level >= peak THEN level
    ELSE IF timestamp - hold > peakHoldTime THEN peak - peakDecay
    ELSE peak

PeakAfter(peak, hold, level, timestamp) ==
    IF level >= peak THEN level
    ELSE IF timestamp - hold > peakHoldTime THEN Max(level, peak - peakDecay)
    ELSE peak

\* Mutant of HoldAfter: every tick restarts the hold time.
HoldAfterEveryTick(peak, hold, level, timestamp) == timestamp

HoldAfter(peak, hold, level, timestamp) ==
    IF level >= peak THEN timestamp ELSE hold

PeakSegment(peak) == Min(eqSegmentCount - 1, FloorDiv(peak * eqSegmentCount, Scale))

\* Mutant of TargetColor: the peak marker is red wherever it is.
TargetColorPeakRed(j, shouldBeLit, shouldBePeak) ==
    IF shouldBePeak THEN "red"
    ELSE IF shouldBeLit
    THEN (IF j >= 10 THEN "red" ELSE IF j >= 8 THEN "amber" ELSE "blue")
    ELSE "none"

TargetColor(j, shouldBeLit, shouldBePeak) ==
    IF shouldBeLit \/ shouldBePeak
    THEN (IF j >= 10 THEN "red" ELSE IF j >= 8 THEN "amber" ELSE "blue")
    ELSE "none"

\* Mutant of Target: every lit segment is marked top-lit.
TargetAllTop(j, litCount, peakSegment) ==
    LET shouldBeLit == j < litCount
        shouldBePeak == ~shouldBeLit /\ j = peakSegment /\ peakSegment >= litCount
    IN  [lit |-> shouldBeLit,
         color |-> TargetColor(j, shouldBeLit, shouldBePeak),
         peak |-> shouldBeLit,
         isPeakHold |-> shouldBePeak]

\* What one segment should show for a band's litCount and peakSegment.
Target(j, litCount, peakSegment) ==
    LET shouldBeLit == j < litCount
        shouldBePeak == ~shouldBeLit /\ j = peakSegment /\ peakSegment >= litCount
    IN  [lit |-> shouldBeLit,
         color |-> TargetColor(j, shouldBeLit, shouldBePeak),
         peak |-> shouldBeLit /\ (j = litCount - 1),
         isPeakHold |-> shouldBePeak]

\* Mutant of NeedsUpdate: every segment is updated in every tick.
NeedsUpdateAlways(seg, target) == TRUE

NeedsUpdate(seg, target) ==
    \/ seg.lit # target.lit
    \/ seg.color # target.color
    \/ seg.peak # target.peak
    \/ seg.isPeakHold # target.isPeakHold

\* classList.toggle(name, force); class names without their 'eq-segment--'
\* prefix.
Toggle(classes, name, force) == IF force THEN classes \cup {name} ELSE classes \ {name}

ColorClass(color) == IF color = "none" THEN {} ELSE {color}

\* Mutant of ClassesAfter: the class of the previous color is not removed.
ClassesAfterKeepsColor(seg, target) ==
    LET c1 == IF seg.lit # target.lit
              THEN Toggle(seg.classes, "lit", target.lit) ELSE seg.classes
        c2 == IF seg.color # target.color
              THEN c1 \cup ColorClass(target.color) ELSE c1
        c3 == IF seg.peak # target.peak THEN Toggle(c2, "peak", target.peak) ELSE c2
    IN  IF seg.isPeakHold # target.isPeakHold
        THEN Toggle(c3, "peak-hold", target.isPeakHold) ELSE c3

\* The element's classList after the diffed update of one segment.
ClassesAfter(seg, target) ==
    LET c1 == IF seg.lit # target.lit
              THEN Toggle(seg.classes, "lit", target.lit) ELSE seg.classes
        c2 == IF seg.color # target.color
              THEN (c1 \ ColorClass(seg.color)) \cup ColorClass(target.color) ELSE c1
        c3 == IF seg.peak # target.peak THEN Toggle(c2, "peak", target.peak) ELSE c2
    IN  IF seg.isPeakHold # target.isPeakHold
        THEN Toggle(c3, "peak-hold", target.isPeakHold) ELSE c3

\* The cached state of one segment, and its element's classList, after the
\* diffed update.
SegmentAfter(seg, target) ==
    IF NeedsUpdate(seg, target)
    THEN [lit |-> IF seg.lit # target.lit THEN target.lit ELSE seg.lit,
          color |-> IF seg.color # target.color THEN target.color ELSE seg.color,
          peak |-> IF seg.peak # target.peak THEN target.peak ELSE seg.peak,
          isPeakHold |-> IF seg.isPeakHold # target.isPeakHold
                         THEN target.isPeakHold ELSE seg.isPeakHold,
          classes |-> ClassesAfter(seg, target)]
    ELSE seg

\* ------------------------------------------------------------------------
\* EQ visualizer: the frame callback and the scheduler
\* ------------------------------------------------------------------------

\* requestAnimationFrame(updateEQBars): a new callback id is pending and is
\* stored in state.eqAnimationId.  running is the id of the callback being run.
RequestFrame(m, running) ==
    LET id == Fresh(m.h.frames \cup {m.s.eqAnimationId, running})
    IN  [m EXCEPT !.h.frames = @ \cup {id}, !.s.eqAnimationId = id]

\* Mutant of Throttled: the comparison is inverted.
ThrottledInverted(m, timestamp) == timestamp - m.s.lastEqUpdate > eqUpdateInterval

Throttled(m, timestamp) == timestamp - m.s.lastEqUpdate < eqUpdateInterval

\* The peak tracking and the segment loop of updateEQBars (lines 1883-1950)
\* for the levels getEQLevels returned.
SegmentLoop(m, timestamp, levels) ==
    LET peaks == [i \in Bands |->
                    PeakAfter(m.s.peakLevels[i], m.s.peakHoldTimes[i], levels[i], timestamp)]
        holds == [i \in Bands |->
                    HoldAfter(m.s.peakLevels[i], m.s.peakHoldTimes[i], levels[i], timestamp)]
        target == [i \in Bands |-> [j \in Segs |->
                    Target(j, LitCount(levels[i]), PeakSegment(peaks[i]))]]
    IN  [m EXCEPT !.s.peakLevels = peaks,
                  !.s.peakHoldTimes = holds,
                  !.h.peaks = peaks,
                  !.h.touched = {<<i, j>> \in Bands \X Segs :
                                    NeedsUpdate(m.g[i][j], target[i][j])},
                  !.g = [i \in Bands |-> [j \in Segs |->
                            SegmentAfter(m.g[i][j], target[i][j])]]]

\* One full pipeline pass of updateEQBars (lines 1879-1950), without the
\* rescheduling that follows it.
PipelinePass(m, timestamp, data, base) ==
    LET Loop(levels) ==
            SegmentLoop([m EXCEPT !.s.lastEqUpdate = timestamp,
                                  !.s.smoothedLevels = SmoothedAfter(m, data, base),
                                  !.h.levels = levels,
                                  !.h.passes = Append(@, timestamp)],
                        timestamp, levels)
    IN  Once(GetEQLevels(m, data, base), Loop)

\* Mutant of UpdateEQBars: a throttled callback returns without rescheduling.
UpdateEQBarsDropsThrottled(m, id, timestamp, data, base) ==
    LET Run(m0) ==
            IF Throttled(m0, timestamp)
            THEN m0
            ELSE Once(PipelinePass(m0, timestamp, data, base),
                      LAMBDA m1 : RequestFrame(m1, id))
    IN  Once([m EXCEPT !.h.frames = @ \ {id}], Run)

\* updateEQBars(timestamp), run by the host for pending callback id.
UpdateEQBars(m, id, timestamp, data, base) ==
    LET Run(m0) ==
            IF Throttled(m0, timestamp)
            THEN RequestFrame(m0, id)
            ELSE Once(PipelinePass(m0, timestamp, data, base),
                      LAMBDA m1 : RequestFrame(m1, id))
    IN  Once([m EXCEPT !.h.frames = @ \ {id}], Run)

\* updateEQBars(timestamp) for an accepted tick in which getEQLevels throws:
\* lastEqUpdate has been written, and the exception leaves the callback before
\* the segment loop and before the rescheduling.
UpdateEQBarsThrows(m, id, timestamp) ==
    [m EXCEPT !.h.frames = @ \ {id}, !.s.lastEqUpdate = timestamp]

\* Mutant of StartEQAnimation: no check of state.eqAnimationId.
StartEQAnimationUnguarded(m) == RequestFrame(m, Null)

StartEQAnimation(m) ==
    IF m.s.eqAnimationId = Null THEN RequestFrame(m, Null) ELSE m

\* Mutant of StopEQAnimation: stopping also resets the throttle timestamp.
StopEQAnimationResets(m) ==
    IF m.s.eqAnimationId # Null
    THEN [m EXCEPT !.h.frames = @ \ {m.s.eqAnimationId}, !.s.eqAnimationId = Null,
                   !.s.lastEqUpdate = 0]
    ELSE m

StopEQAnimation(m) ==
    IF m.s.eqAnimationId # Null
    THEN [m EXCEPT !.h.frames = @ \ {m.s.eqAnimationId}, !.s.eqAnimationId = Null]
    ELSE m

\* ------------------------------------------------------------------------
\* Mode switching and the terminal uptime counter
\* ------------------------------------------------------------------------

\* updateUptime() at Date.now() = dateNow: hours, minutes and seconds since
\* terminalStartTime.
UpdateUptime(m, dateNow) ==
    LET elapsed == (dateNow - m.s.terminalStartTime) \div 1000
    IN  [m EXCEPT !.e.uptimeValue =
            <<elapsed \div 3600, (elapsed % 3600) \div 60, elapsed % 60>>]

\* startUptimeCounter(); id is the handle setInterval returns.
StartUptimeCounter(m, id, dateNow) ==
    IF m.s.uptimeIntervalId # Null THEN m
    ELSE UpdateUptime([m EXCEPT !.s.uptimeIntervalId = id,
                                !.h.intervals = @ \cup {id}],
                      dateNow)

\* Mutant of StopUptimeCounter: the handle is dropped and the timer is not
\* cleared.
StopUptimeCounterLeaks(m) ==
    IF m.s.uptimeIntervalId # Null
    THEN [m EXCEPT !.s.uptimeIntervalId = Null]
    ELSE m

StopUptimeCounter(m) ==
    IF m.s.uptimeIntervalId # Null
    THEN [m EXCEPT !.h.intervals = @ \ {m.s.uptimeIntervalId},
                   !.s.uptimeIntervalId = Null]
    ELSE m

\* switchMode(mode).
SwitchMode(m, mode, id, dateNow) ==
    IF m.s.currentMode = mode THEN m
    ELSE LET m1 == [m EXCEPT !.s.currentMode = mode,
                             !.e.audioModeBtn.active = (mode = "audio"),
                             !.e.terminalModeBtn.active = (mode = "terminal"),
                             !.e.audioInterface.active = (mode = "audio"),
                             !.e.terminalInterface.active = (mode = "terminal"),
                             !.e.body.terminalMode = (mode = "terminal")]
         IN  IF mode = "terminal"
             THEN StartUptimeCounter(m1, id, dateNow)
             ELSE StopUptimeCounter(m1)

\* ------------------------------------------------------------------------
\* Initial state (after init())
\* ------------------------------------------------------------------------

InitState ==
    [currentMode |-> "audio",
     output |-> "READY...",
     logs |-> "AWAITING INPUT...",
     eqAnimationId |-> 1,
     lastEqUpdate |-> 0,
     audioContext |-> Null,
     analyser |-> Null,
     frequencyData |-> Null,
     audioSource |-> Null,
     audioElement |-> Null,
     micStream |-> Null,
     audioMode |-> "demo",
     isPlaying |-> FALSE,
     smoothedLevels |-> ZeroLevels,
     peakLevels |-> ZeroLevels,
     peakHoldTimes |-> ZeroLevels,
     terminalStartTime |-> 0,
     uptimeIntervalId |-> Null]

InitElements ==
    [micBtn |-> [active |-> FALSE, text |-> "MIC"],
     playPauseBtn |-> [disabled |-> TRUE, text |-> "PLAY"],
     audioModeBtn |-> [active |-> TRUE],
     terminalModeBtn |-> [active |-> FALSE],
     audioInterface |-> [active |-> TRUE],
     terminalInterface |-> [active |-> FALSE],
     body |-> [terminalMode |-> FALSE],
     uptimeValue |-> <<0, 0, 0>>]

InitSegments ==
    [i \in Bands |-> [j \in Segs |->
        [lit |-> FALSE, color |-> "none", peak |-> FALSE, isPeakHold |-> FALSE,
         classes |-> {}]]]

InitHost ==
    [ctxState |-> "none",
     sampleRate |-> sampleRate,
     liveStreams |-> {},
     loadedElements |-> {},
     connectedNodes |-> {},
     destConnected |-> FALSE,
     playing |-> {},
     intervals |-> {},
     suspended |-> [at \in {"resume", "getUserMedia", "togglePlayPause"} |-> 0],
     stopped |-> FALSE,
     frames |-> {1},
     levels |-> ZeroLevels,
     peaks |-> ZeroLevels,
     touched |-> {},
     passes |-> <<>>]

Init ==
    /\ state = InitState
    /\ elements = InitElements
    /\ segments = InitSegments
    /\ host = InitHost
    /\ now = 0

\* ------------------------------------------------------------------------
\* Actions
\* ------------------------------------------------------------------------

\* The machine after a handler has run; the frame clock is not touched.
Becomes(m) ==
    /\ now' = now
    /\ state' = m.s
    /\ elements' = m.e
    /\ segments' = m.g
    /\ host' = m.h

InFlight == host.suspended["resume"] + host.suspended["getUserMedia"]

CtxStates == {"suspended", "running"}

\* Click on the MIC button / StereoApp.toggleMic().
ToggleMic ==
    /\ state.audioMode = "mic" \/ InFlight < MaxPending
    /\ \E c \in CtxStates : Becomes(ToggleMicrophoneCall(M, c))

\* audioContext.resume() is fulfilled.
MicResumed ==
    /\ host.suspended["resume"] > 0
    /\ Becomes(ToggleMicrophoneResumed(M))

CanOpenStream ==
    /\ host.suspended["getUserMedia"] > 0
    /\ Fresh(host.liveStreams \cup {state.micStream}) # Null
    /\ Fresh(host.connectedNodes \cup {state.audioSource}) # Null

\* getUserMedia is fulfilled and the stream is connected.
MicGranted ==
    /\ CanOpenStream
    /\ Becomes(ToggleMicrophoneStream(M, TRUE))

\* getUserMedia is fulfilled and createMediaStreamSource throws.
MicSourceThrows ==
    /\ CanOpenStream
    /\ Becomes(ToggleMicrophoneStream(M, FALSE))

\* audioContext.resume() or getUserMedia is rejected.
MicRejected ==
    \E at \in {"resume", "getUserMedia"} :
        /\ host.suspended[at] > 0
        /\ Becomes(ToggleMicrophoneRejected(M, at))

CanLoadFile ==
    /\ Fresh(host.loadedElements \cup {state.audioElement}) # Null
    /\ Fresh(host.connectedNodes \cup {state.audioSource}) # Null

\* Change event of the file input with a file chosen.
FileSelect ==
    /\ CanLoadFile
    /\ \E c \in CtxStates : Becomes(HandleFileSelect(M, c, TRUE))

\* The same, with createMediaElementSource throwing.
FileSourceThrows ==
    /\ CanLoadFile
    /\ \E c \in CtxStates : Becomes(HandleFileSelect(M, c, FALSE))

\* StereoApp.stopAudio().
StopAudio == \E m \in {StopAudioSource(M)} : Becomes(m)

\* StereoApp.stopAudio() while a toggleMicrophone call is suspended; host.stopped
\* records that it happened.
StopAudioPending ==
    /\ InFlight > 0
    /\ \E m \in {StopAudioSource(M)} : Becomes([m EXCEPT !.h.stopped = TRUE])

\* StereoApp.stopAudio() while no toggleMicrophone call is suspended.
StopAudioSettled == InFlight = 0 /\ StopAudio

\* Click on the MIC button before any such stopAudio().
ToggleMicUnstopped == ~host.stopped /\ ToggleMic

\* Click on the PLAY / PAUSE button (a disabled button fires no click).
TogglePlay ==
    /\ ~elements.playPauseBtn.disabled
    /\ host.suspended["togglePlayPause"] < MaxPending
    /\ \E m \in {TogglePlayPauseCall(M)} : Becomes(m)

\* audioContext.resume() of a togglePlayPause call is fulfilled.
PlayResumed ==
    /\ host.suspended["togglePlayPause"] > 0
    /\ \E m \in {TogglePlayPauseResumed(M)} : Becomes(m)

\* audioContext.resume() of a togglePlayPause call is rejected.
PlayResumeRejected ==
    /\ host.suspended["togglePlayPause"] > 0
    /\ \E m \in {TogglePlayPauseRejected(M)} : Becomes(m)

\* Playback of an audio element reaches the end of the file.
Ended == \E el \in host.playing : \E m \in {OnEnded(M, el)} : Becomes(m)

\* Interval timers the host can hold at a time.
MaxTimers == 3

TimerIds == 1..MaxTimers

\* Seconds of wall-clock time the uptime counter is followed for.
MaxSeconds == 5

Modes == {"audio", "terminal"}

\* Click on a mode button / StereoApp.switchMode(mode), at Date.now() = now.
SwitchModeTo(mode) ==
    \E id \in TimerIds \ host.intervals :
        \E m \in {SwitchMode(M, mode, id, now)} : Becomes(m)

SwitchModeAny == \E mode \in Modes : SwitchModeTo(mode)

\* An installed uptime timer fires.
UptimeTick ==
    \E id \in host.intervals : \E m \in {UpdateUptime(M, now)} : Becomes(m)

\* A second of wall-clock time passes.
SecondPasses ==
    /\ now < MaxSeconds * 1000
    /\ now' = now + 1000
    /\ UNCHANGED <<state, elements, segments, host>>

\* Frame timestamps (performance.now() at the frame), never decreasing.
Timestamps == {k * (eqUpdateInterval \div 2) : k \in 0..MaxFrames}

MaxTime == MaxFrames * (eqUpdateInterval \div 2)

\* Analyser snapshots: every bin at the same magnitude.
Mags == {0, 255}

Snapshots == {[bin \in 0..(binCount - 1) |-> v] : v \in Mags}

\* Values of wave1 + wave2 + wave3 (three sines of the timestamp and the band
\* index, of amplitudes 0.3, 0.2 and 0.15) and of noise (Math.random() * 0.15)
\* in the demo branch, and base = 0.35 + wave1 + wave2 + wave3 + noise.
Waves == {0 - 600, 600}

Noises == {0, 149}

DemoBase(wave, noise) == (35 * Scale) \div 100 + wave + noise

AllDemoBases == {DemoBase(w, n) : w \in Waves, n \in Noises}

\* The lowest and the highest of them.
DemoBases == {DemoBase(0 - 600, 0), DemoBase(600, 149)}

CanRequestFrame(running) == Fresh(host.frames \cup {state.eqAnimationId, running}) # Null

\* What a tick reads from outside the program: the analyser snapshot in the
\* live branch, the demo waveform and Math.random() in the demo branch.
ZeroSnapshot == [bin \in 0..(binCount - 1) |-> 0]

TickInputs ==
    IF LiveBranch(M)
    THEN {[data |-> d, base |-> ZeroLevels] : d \in Snapshots}
    ELSE {[data |-> ZeroSnapshot, base |-> b] : b \in [Bands -> DemoBases]}

\* The machine after a frame callback has run at timestamp `now`.
FrameBecomes(m) ==
    /\ state' = m.s
    /\ elements' = m.e
    /\ segments' = m.g
    /\ host' = m.h

\* The host runs a pending frame callback with a timestamp of T.
FrameAt(T) ==
    \E ts \in T :
        /\ now' = ts
        /\ \E id \in host.frames, in \in TickInputs :
            /\ CanRequestFrame(id)
            /\ \E m \in {UpdateEQBars(M, id, ts, in.data, in.base)} : FrameBecomes(m)

\* The host runs a pending frame callback.
Frame == FrameAt({ts \in Timestamps : ts >= now})

\* The host runs a pending frame callback in demo mode, with every combination
\* of wave and noise.
DemoFrame ==
    \E ts \in {t \in Timestamps : t >= now} :
        /\ now' = ts
        /\ ~LiveBranch(M)
        /\ \E id \in host.frames, b \in [Bands -> AllDemoBases] :
            /\ CanRequestFrame(id)
            /\ \E m \in {UpdateEQBars(M, id, ts, ZeroSnapshot, b)} : FrameBecomes(m)

\* The host runs a pending frame callback, the tick is accepted and
\* getEQLevels throws.
FrameThrows ==
    \E ts \in {t \in Timestamps : t >= now} :
        /\ now' = ts
        /\ ~Throttled(M, ts)
        /\ \E id \in host.frames :
            /\ CanRequestFrame(id)
            /\ \E m \in {UpdateEQBarsThrows(M, id, ts)} : FrameBecomes(m)

\* StereoApp.startEQ().
StartEQ ==
    /\ CanRequestFrame(Null)
    /\ Becomes(StartEQAnimation(M))

\* StereoApp.stopEQ().
StopEQ == \E m \in {StopEQAnimation(M)} : Becomes(m)

\* ------------------------------------------------------------------------
\* Specifications
\* ------------------------------------------------------------------------

NextSource ==
    \/ ToggleMic
    \/ MicResumed
    \/ MicGranted
    \/ MicSourceThrows
    \/ MicRejected
    \/ FileSelect
    \/ FileSourceThrows
    \/ StopAudio

NextEQ ==
    \/ Frame
    \/ StartEQ
    \/ StopEQ

Next == NextSource \/ NextEQ

\* The whole application.
Spec == Init /\ [][Next]_vars

\* The audio source manager alone (the scheduler keeps its initial state).
SourceSpec == Init /\ [][NextSource]_vars

\* The scheduler and the pipeline, with the synchronous source switches
\* (file selection, stopAudio) that move ticks between the demo and the live
\* branch.
EQSpec == Init /\ [][NextEQ \/ FileSelect \/ StopAudio]_vars

\* EQSpec with frame callbacks in which getEQLevels throws.
EQFaultSpec == Init /\ [][NextEQ \/ FrameThrows \/ FileSelect \/ StopAudio]_vars

\* Microphone activations with stopAudio() called while they are suspended, and
\* no activation begun after that: an activation that settles once
\* host.stopped holds was suspended when stopAudio() ran.
CancelSpec ==
    Init /\ [][ToggleMicUnstopped \/ MicResumed \/ MicGranted \/ MicSourceThrows
                    \/ MicRejected \/ StopAudioSettled \/ StopAudioPending]_vars

\* The audio source manager with playback of the selected file.
PlaySpec ==
    Init /\ [][NextSource \/ TogglePlay \/ PlayResumed \/ PlayResumeRejected
                    \/ Ended]_vars

\* Mode switching and the uptime counter, with the scheduler started and
\* stopped from the API.
ModeSpec == Init /\ [][SwitchModeAny \/ UptimeTick \/ SecondPasses \/ StartEQ \/ StopEQ]_vars

\* The host delivers a pending frame callback with a later timestamp.
FrameAdvance == FrameAt({ts \in Timestamps : ts > now})

\* Click on the MIC button while no microphone activation is suspended.
ToggleMicAlone == InFlight = 0 /\ ToggleMic

\* A file selection whose activation fails, while no microphone activation
\* is suspended.
FileSourceThrowsAlone == InFlight = 0 /\ FileSourceThrows

\* The scheduler with source activations (one microphone activation at a
\* time) that are pending, succeed and fail, under a host that keeps
\* delivering frame callbacks with increasing timestamps for as long as one
\* is pending.
NextLive ==
    \/ NextEQ
    \/ ToggleMicAlone
    \/ MicResumed
    \/ MicGranted
    \/ MicSourceThrows
    \/ MicRejected
    \/ FileSourceThrowsAlone
    \/ StopAudio

LiveSpec == Init /\ [][NextLive]_vars /\ WF_vars(FrameAdvance)

\* Frame callbacks a long time apart: timestamps are multiples of more than
\* half the peak hold time, so that held peaks expire and decay.
SlowTimestamps == {k * (peakHoldTime \div 2 + eqUpdateInterval) : k \in 0..MaxFrames}

SlowFrame == FrameAt({ts \in SlowTimestamps : ts >= now})

\* The first file selection (the one that creates the audio context).
FileSelectFirst == state.audioContext = Null /\ FileSelect

\* stopAudio() while a source is active.
StopAudioLive == state.audioMode # "demo" /\ StopAudio

\* The pipeline under slow frame callbacks, with a switch from demo to a file
\* and back.
PeakSpec == Init /\ [][SlowFrame \/ FileSelectFirst \/ StopAudioLive]_vars

\* Scenario A: the levels of one band in four consecutive accepted ticks.
ScenarioLevels == <<0, Scale \div 2, Scale, (3 * Scale) \div 10>>

ScenarioTimestamps == {k * 2 * eqUpdateInterval : k \in 1..(MaxFrames + 7)}

\* The pipeline pass of an accepted tick (lines 1879-1950) for the levels
\* getEQLevels is taken to return.
TrackLevels(m, timestamp, levels) ==
    SegmentLoop([m EXCEPT !.s.lastEqUpdate = timestamp,
                          !.h.levels = levels,
                          !.h.passes = Append(@, timestamp)],
                timestamp, levels)

\* The next tick of the scenario, at any later timestamp.
ScenarioTick ==
    /\ Len(host.passes) < Len(ScenarioLevels)
    /\ \E ts \in {t \in ScenarioTimestamps : t >= now + eqUpdateInterval} :
        /\ now' = ts
        /\ \E id \in host.frames :
            /\ CanRequestFrame(id)
            /\ \E m \in {RequestFrame(
                            TrackLevels([M EXCEPT !.h.frames = @ \ {id}], ts,
                                [i \in Bands |-> ScenarioLevels[Len(host.passes) + 1]]),
                            id)} :
                FrameBecomes(m)

ScenarioSpec == Init /\ [][ScenarioTick]_vars

\* The pipeline under slow frame callbacks, with any number of switches between
\* demo mode and a file: what the demo branch leaves in smoothedLevels and
\* peakLevels is carried into the live branch by every activation after the
\* first.
CarrySpec == Init /\ [][SlowFrame \/ FileSelect \/ StopAudioLive]_vars

\* The scheduler and the pipeline in demo mode.
DemoSpec == Init /\ [][DemoFrame \/ StartEQ \/ StopEQ]_vars

\* The smoothing update of the live branch alone (lines 1846-1851), for raw
\* levels and smoothing factors drawn from [0,1].
RawSteps == 4

Raws == {(k * Scale) \div RawSteps : k \in 0..RawSteps}

Alphas == 0..10

SmoothingUpdate(m, alpha, raw) ==
    LET smoothed == [i \in Bands |-> SmoothWith(alpha, m.s.smoothedLevels[i], raw[i])]
    IN  [m EXCEPT !.s.smoothedLevels = smoothed, !.h.levels = smoothed]

SmoothInit ==
    /\ \E s0 \in [Bands -> Raws] : state = [InitState EXCEPT !.smoothedLevels = s0]
    /\ elements = InitElements
    /\ segments = InitSegments
    /\ host = InitHost
    /\ now = 0

SmoothStep ==
    \E alpha \in Alphas, raw \in [Bands -> Raws] : Becomes(SmoothingUpdate(M, alpha, raw))

SmoothSpec == SmoothInit /\ [][SmoothStep]_vars

\* The band mapping of the live branch alone (lines 1825-1844) for every band,
\* under the sample rates a host may run the audio context at.
SampleRates == {8000, 22050, 44100, 48000, 96000}

AllBands == 0..(eqBarCount - 1)

\* Magnitude snapshots: every bin at the same byte value, or bin k at k.
MagStep == 5

LevelMags == {v \in 0..255 : v % MagStep = 0 \/ v = 255}

LevelSnapshots ==
    {[bin \in 0..(binCount - 1) |-> v] : v \in LevelMags}
        \cup {[bin \in 0..(binCount - 1) |-> bin]}

\* The pre-smoothing level of every band, left in host.levels.
BandLevels(m, data) ==
    [m EXCEPT !.h.levels = [i \in AllBands |-> LiveLevel(m.h.sampleRate, data, i)]]

LevelInit ==
    /\ state = InitState
    /\ elements = InitElements
    /\ segments = InitSegments
    /\ \E rate \in SampleRates : host = [InitHost EXCEPT !.sampleRate = rate]
    /\ now = 0

Analyse == \E data \in LevelSnapshots : Becomes(BandLevels(M, data))

LevelSpec == LevelInit /\ [][Analyse]_vars

\* ------------------------------------------------------------------------
\* The setInterval-driven revision of the application (lines 2275-2519)
\* ------------------------------------------------------------------------

\* The class names updateEQBars gives segment j of a bar with litSegments lit
\* segments.
IntervalClassName(j, litSegments) ==
    LET isLit == j < litSegments
        isPeak == j = litSegments - 1 /\ isLit
        colorClass == IF j >= 10 THEN "eq-segment--red"
                      ELSE IF j >= 8 THEN "eq-segment--amber"
                      ELSE "eq-segment--blue"
    IN  {"eq-segment"}
            \cup (IF isLit THEN {colorClass} ELSE {"eq-segment--off"})
            \cup (IF isPeak THEN {"eq-segment--peak"} ELSE {})

\* level = max(0.1, min(1, base + noise)), with base = sin(...) * 0.3 + 0.5 and
\* noise = Math.random() * 0.3.
IntervalLevel(base, noise) == Max(Scale \div 10, Min(Scale, base + noise))

IntervalLevels == {IntervalLevel(b, n) : b \in {200, 500, 800}, n \in {0, 150, 299}}

\* updateEQBars(), run by an interval timer.
IntervalUpdateEQBars(m, levels) ==
    [m EXCEPT !.g = [i \in Bands |-> [j \in Segs |->
                        IntervalClassName(j, LitCount(levels[i]))]]]

\* startEQAnimation(); id is the handle setInterval returns.
IntervalStartEQAnimation(m, id) ==
    [m EXCEPT !.s.eqIntervalId = id, !.h.intervals = @ \cup {id}]

\* stopEQAnimation().
IntervalStopEQAnimation(m) ==
    IF m.s.eqIntervalId # Null
    THEN [m EXCEPT !.h.intervals = @ \ {m.s.eqIntervalId}, !.s.eqIntervalId = Null]
    ELSE m

\* The state after init(): buildEQBars has built the segments and
\* startEQAnimation has installed the first timer.
IntervalInit ==
    /\ state = [output |-> "READY...", logs |-> "AWAITING INPUT...", eqIntervalId |-> 1]
    /\ elements = [outputDisplay |-> "READY..."]
    /\ segments = [i \in Bands |-> [j \in Segs |-> {"eq-segment", "eq-segment--off"}]]
    /\ host = [intervals |-> {1}]
    /\ now = 0

\* StereoApp.startEQ().
IntervalStartEQ ==
    \E id \in TimerIds \ host.intervals :
        \E m \in {IntervalStartEQAnimation(M, id)} : Becomes(m)

\* StereoApp.stopEQ().
IntervalStopEQ == \E m \in {IntervalStopEQAnimation(M)} : Becomes(m)

\* An interval timer fires.
IntervalTick ==
    \E id \in host.intervals, levels \in [Bands -> IntervalLevels] :
        \E m \in {IntervalUpdateEQBars(M, levels)} : Becomes(m)

IntervalSpec == IntervalInit /\ [][IntervalStartEQ \/ IntervalStopEQ \/ IntervalTick]_vars

\* ------------------------------------------------------------------------
\* Audio source manager: properties
\* ------------------------------------------------------------------------

\* C1: in every reachable state at most one signal source is held open:
\* state.micStream and state.audioElement are never both non-null.
C1_AtMostOneSourceHeld ==
    ~(state.micStream # Null /\ state.audioElement # Null)

\* C2: switching sources never leaks: every live microphone stream is the one
\* state.micStream references and every source node connected to the analyser
\* is the one state.audioSource references.
C2_NoLeakedResource ==
    /\ host.liveStreams \subseteq {state.micStream}
    /\ host.connectedNodes \subseteq {state.audioSource}

\* A source activation fails in this step.
ActivationFails == MicRejected \/ MicSourceThrows \/ FileSourceThrows

InDemoWithNothingHeld(s) ==
    /\ s.audioMode = "demo"
    /\ s.micStream = Null
    /\ s.audioElement = Null
    /\ s.audioSource = Null

\* C3: whenever a source activation fails, the system ends in Demo (audioMode
\* 'demo', micStream, audioElement and audioSource null) and an error entry
\* has been written to the log.
C3_FailureEndsInDemo ==
    [][ActivationFails => (InDemoWithNothingHeld(state') /\ state'.logs = "MIC ERROR")]_vars

\* C4: source activations are serialized: at most one toggleMicrophone call
\* is suspended on audioContext.resume or getUserMedia at any time.
C4_ActivationsSerialized == InFlight <= 1

\* A handler that switches sources starts in this step: toggleMicrophone from
\* a mode other than 'mic', or a file selection (whether or not the
\* activation that follows succeeds).
SwitchToMic == state.audioMode # "mic" /\ ToggleMic

SwitchToFile == FileSelect \/ FileSourceThrows

\* What the state held before the step has been released after it.
OldSourceReleased ==
    /\ state.micStream # Null => state.micStream \notin host'.liveStreams
    /\ state.audioElement # Null => state.audioElement \notin host'.loadedElements
    /\ state.audioSource # Null => state.audioSource \notin host'.connectedNodes

\* C5: on every source switch the active source is released (tracks stopped,
\* element cleared, node disconnected, audioMode 'demo') before the requested
\* source is activated, and it is released whether or not the activation
\* succeeds.  A switch to the microphone is in Demo with nothing held when it
\* suspends before getUserMedia; a file selection whose activation fails
\* leaves audioMode 'demo' and holds nothing of the old source; one that
\* succeeds holds only the new element and node.
C5_ReleaseBeforeActivate ==
    [][/\ SwitchToMic =>
            /\ OldSourceReleased
            /\ InDemoWithNothingHeld(state')
            /\ host'.liveStreams \subseteq host.liveStreams
            /\ host'.connectedNodes \subseteq host.connectedNodes
       /\ SwitchToFile =>
            /\ OldSourceReleased
            /\ state'.micStream = Null
            /\ state'.audioElement \notin host.loadedElements \cup {state.audioElement}
            /\ state'.audioSource = Null \/ state'.audioSource \notin
                    host.connectedNodes \cup {state.audioSource}
            /\ state'.audioSource = Null => state'.audioMode = "demo"
      ]_vars

\* A file was selected while another file was loaded: the first element has
\* been cleared and the second is the one held.
C5_Witness ==
    /\ state.audioMode = "file"
    /\ state.audioElement = 2
    /\ host.loadedElements = {2}
    /\ host.connectedNodes = {state.audioSource}

\* ------------------------------------------------------------------------
\* Scheduler: properties
\* ------------------------------------------------------------------------

Running == state.eqAnimationId # Null

\* C6: at most one frame callback of updateEQBars is pending at any time, and
\* it is the one state.eqAnimationId names; startEQ while running schedules
\* nothing and stopEQ while stopped does nothing.
C6_SinglePendingFrame ==
    /\ [](Cardinality(host.frames) <= 1 /\ host.frames \subseteq {state.eqAnimationId})
    /\ [][(StartEQ /\ Running) => UNCHANGED vars]_vars
    /\ [][(StopEQ /\ ~Running) => UNCHANGED vars]_vars

\* The scheduler runs (one callback pending) after two accepted ticks, in the
\* live branch.
C6_Witness ==
    /\ Running
    /\ Cardinality(host.frames) = 1
    /\ Len(host.passes) >= 2
    /\ state.audioMode = "file"

\* Everything but the scheduler handle and the pending callbacks is unchanged.
Retained ==
    /\ state' = [state EXCEPT !.eqAnimationId = state'.eqAnimationId]
    /\ host' = [host EXCEPT !.frames = host'.frames]
    /\ UNCHANGED <<elements, segments, now>>

\* C7: stopEQ changes nothing but the scheduler handle (smoothedLevels,
\* peakLevels, peakHoldTimes, the cached segments, lastEqUpdate and the audio
\* source state are unchanged), and a later startEQ installs the callback
\* again over exactly that state.
C7_StopRetainsState ==
    [][/\ StopEQ => (Retained /\ host'.frames = {} /\ state'.eqAnimationId = Null)
       /\ (StartEQ /\ ~Running) =>
            (Retained /\ state'.eqAnimationId # Null
                      /\ host'.frames = {state'.eqAnimationId})
      ]_vars

\* The scheduler is stopped after ticks in the live branch have run.
C7_Witness ==
    /\ ~Running
    /\ host.frames = {}
    /\ state.audioMode = "file"
    /\ state.lastEqUpdate > 0
    /\ \E i \in Bands : state.smoothedLevels[i] # 0 /\ state.peakLevels[i] # 0

\* What a pipeline pass writes.
PipelineState == <<state.smoothedLevels, state.peakLevels, state.peakHoldTimes, segments>>

\* C8: any two consecutive accepted ticks have timestamps at least
\* eqUpdateInterval apart; a callback that arrives sooner runs no pipeline
\* pass and leaves lastEqUpdate alone, but is still rescheduled.
C8_Throttle ==
    /\ [](\A k \in 1..(Len(host.passes) - 1) :
            host.passes[k + 1] - host.passes[k] >= eqUpdateInterval)
    /\ [][Frame =>
            IF now' - state.lastEqUpdate < eqUpdateInterval
            THEN /\ state'.lastEqUpdate = state.lastEqUpdate
                 /\ host'.passes = host.passes
                 /\ PipelineState' = PipelineState
                 /\ host'.frames # {}
            ELSE /\ state'.lastEqUpdate = now'
                 /\ host'.passes = Append(host.passes, now')
                 /\ host'.frames # {}
         ]_vars

\* Two ticks were accepted and a later callback was skipped and rescheduled.
C8_Witness ==
    /\ Len(host.passes) >= 2
    /\ now > state.lastEqUpdate
    /\ host.frames # {}

\* C9: if getEQLevels throws during an accepted tick, the frame callback is
\* still rescheduled (the scheduler is not halted).
C9_FaultKeepsLoop ==
    [][FrameThrows => (host'.frames # {} /\ host'.frames = {state'.eqAnimationId})]_vars

\* The latest frame callback delivered was an accepted tick.
JustAccepted == Len(host.passes) > 0 /\ host.passes[Len(host.passes)] = now

\* C10: while the scheduler is started and not stopped and the host keeps
\* delivering frame callbacks with increasing timestamps, accepted ticks keep
\* coming (as long as the timestamps of the model allow one more), each
\* producing a level for every band, whatever the microphone activations do.
C10_TicksKeepComing ==
    (Running /\ ~JustAccepted /\ state.lastEqUpdate + eqUpdateInterval <= MaxTime)
        ~> (~Running \/ (JustAccepted /\ DOMAIN host.levels = Bands))

\* A microphone activation has failed, and ticks have been accepted since the
\* activation began (its initAudioContext zeroed the smoothed levels).
C10_Witness ==
    /\ state.logs = "MIC ERROR"
    /\ Len(host.passes) >= 2
    /\ JustAccepted
    /\ \E i \in Bands : state.smoothedLevels[i] # 0

\* ------------------------------------------------------------------------
\* Segment renderer and peak tracker: properties
\* ------------------------------------------------------------------------

\* This step is an accepted tick (a full pipeline pass).
AcceptedTick == host'.passes # host.passes

\* The four cached attributes of a segment.
Cached(seg) ==
    [lit |-> seg.lit, color |-> seg.color, peak |-> seg.peak, isPeakHold |-> seg.isPeakHold]

\* C11: two consecutive accepted ticks that compute the same level and the same
\* peak for every band perform no segment update in the second tick: its
\* change-set is empty and the cached segments and their classes are as they
\* were.
C11_IdenticalFramesEmptyChangeSet ==
    [][(AcceptedTick /\ Len(host.passes) > 0
            /\ host'.levels = host.levels /\ host'.peaks = host.peaks)
        => (host'.touched = {} /\ segments' = segments)]_vars

\* Two ticks were accepted, the later one computed the demo floor level with
\* the peak at the same value (as the one before it did) and touched nothing,
\* with segment 0 showing the peak marker.
C11_Witness ==
    /\ Len(host.passes) >= 2
    /\ host.touched = {}
    /\ \A i \in Bands :
        /\ host.levels[i] = Scale \div 20
        /\ host.peaks[i] = Scale \div 20
        /\ segments[i][0].isPeakHold

\* What the segment (i, j) shows when computed from the last accepted tick's
\* level and peak alone.
FullTarget(i, j) == Target(j, LitCount(host.levels[i]), PeakSegment(host.peaks[i]))

\* The classes of a segment rendered from scratch.
FullClasses(t) ==
    (IF t.lit THEN {"lit"} ELSE {}) \cup ColorClass(t.color)
        \cup (IF t.peak THEN {"peak"} ELSE {})
        \cup (IF t.isPeakHold THEN {"peak-hold"} ELSE {})

\* C12: diffed rendering equals full rendering: after every accepted tick,
\* for every (band, segment), the cached lit, color, peak, isPeakHold and the
\* classes on the element equal the values computed from that tick's litCount
\* and peakSegment alone; and a segment is touched in a tick only if one of
\* its four attributes differs from what the previous tick cached.
C12_DiffedEqualsFull ==
    /\ [](Len(host.passes) > 0 =>
            \A i \in Bands, j \in Segs :
                /\ Cached(segments[i][j]) = FullTarget(i, j)
                /\ segments[i][j].classes = FullClasses(FullTarget(i, j)))
    /\ [][AcceptedTick =>
            \A t \in host'.touched :
                Cached(segments'[t[1]][t[2]]) # Cached(segments[t[1]][t[2]])]_vars

\* After a tick that changed some segments and left others alone, a band shows
\* lit segments below a held peak marker in another color zone.
C12_Witness ==
    /\ Len(host.passes) >= 2
    /\ host.touched # {}
    /\ host.touched # Bands \X Segs
    /\ \E i \in Bands :
        /\ segments[i][0].lit
        /\ \E j \in Segs : segments[i][j].isPeakHold /\ segments[i][j].color # "blue"

\* C13: after every accepted tick and for every band: no segment is both lit
\* and a peak marker, at most one segment is the peak marker and its index is
\* >= litCount, and at most one segment is top-lit and it is the lit segment
\* with index litCount - 1.
C13_SegmentInvariants ==
    Len(host.passes) > 0 =>
        \A i \in Bands :
            LET litCount == LitCount(host.levels[i])
                markers == {j \in Segs : segments[i][j].isPeakHold}
                tops == {j \in Segs : segments[i][j].peak}
            IN  /\ \A j \in Segs : ~(segments[i][j].lit /\ segments[i][j].isPeakHold)
                /\ Cardinality(markers) <= 1
                /\ \A j \in markers : j >= litCount
                /\ Cardinality(tops) <= 1
                /\ \A j \in tops : segments[i][j].lit /\ j = litCount - 1

\* A band with a top-lit segment and a peak marker above it.
C13_Witness ==
    /\ Len(host.passes) > 0
    /\ \E i \in Bands : \E j, k \in Segs :
        /\ segments[i][j].peak
        /\ segments[i][k].isPeakHold
        /\ k > j

\* C14: after every accepted tick, for every band, the stored peak is at least
\* the level used in that tick, in demo and live modes and across source
\* switches.
C14_PeakAtLeastLevel ==
    [][AcceptedTick => \A i \in Bands : state'.peakLevels[i] >= host'.levels[i]]_vars

\* A peak in its decay window: the hold time has expired and the stored peak
\* has fallen below the level that set it, while staying above the level of
\* the last tick.
C14_Witness ==
    /\ Len(host.passes) >= 2
    /\ \E i \in Bands :
        /\ now - state.peakHoldTimes[i] > peakHoldTime
        /\ state.peakLevels[i] > host.levels[i]
        /\ state.peakLevels[i] = host.peaks[i]
        /\ LitCount(state.peakLevels[i]) > 0

\* ------------------------------------------------------------------------
\* Smoother and spectrum mapper: properties
\* ------------------------------------------------------------------------

\* A handler of the audio source manager runs in this step.
SourceSwitch ==
    \/ ToggleMic
    \/ MicResumed
    \/ MicGranted
    \/ MicSourceThrows
    \/ MicRejected
    \/ FileSelect
    \/ FileSourceThrows
    \/ StopAudio

\* C15: no source-switch operation (toggleMic, file selection, stopMicrophone,
\* stopAudio, including the first activation that creates the audio context)
\* modifies smoothedLevels, peakLevels or peakHoldTimes.
C15_SwitchKeepsSmoothing ==
    [][SourceSwitch =>
        /\ state'.smoothedLevels = state.smoothedLevels
        /\ state'.peakLevels = state.peakLevels
        /\ state'.peakHoldTimes = state.peakHoldTimes]_vars

\* C16: in every reachable state every smoothedLevels[i] lies in [0,1], in demo
\* mode as well as live mode.
C16_SmoothedInUnitRange ==
    \A i \in Bands : state.smoothedLevels[i] >= 0 /\ state.smoothedLevels[i] <= Scale

InUnit(x) == x >= 0 /\ x <= Scale

\* C17: starting from smoothed values in [0,1], for every band, every raw
\* level in [0,1] and every smoothing factor in [0,1], the update
\* smoothed' = smoothed * alpha + raw * (1 - alpha) keeps the smoothed level
\* within [0,1].
C17_SmoothingKeepsUnitRange ==
    [][(\A i \in Bands : InUnit(state.smoothedLevels[i]))
        => (\A i \in Bands : InUnit(state'.smoothedLevels[i]))]_vars

\* An update has left a smoothed level strictly inside the range, off the
\* grid of the initial values and raw levels.
C17_Witness ==
    \E i \in Bands :
        /\ host.levels[i] = state.smoothedLevels[i]
        /\ state.smoothedLevels[i] > 0
        /\ state.smoothedLevels[i] < Scale
        /\ state.smoothedLevels[i] \notin Raws

\* C18: in live mode, for every band and every magnitude snapshot with values
\* in 0..255, the pre-smoothing band level (average, normalisation by 255,
\* band gain) lies in [0,1]; a band whose bin range is empty has level 0.
C18_LiveLevelInUnitRange ==
    \A i \in DOMAIN host.levels :
        /\ InUnit(host.levels[i])
        /\ HighBin(host.sampleRate, i) < LowBin(host.sampleRate, i) => host.levels[i] = 0

\* Under one sample rate and one snapshot: a band whose gain pushed the level
\* to the clamp, a band strictly inside the range and a band with an empty
\* bin range.
C18_Witness ==
    /\ DOMAIN host.levels = AllBands
    /\ \E i, j, k \in AllBands :
        /\ host.levels[i] = Scale
        /\ bandGains[i + 1] > 10
        /\ host.levels[j] > 0 /\ host.levels[j] < Scale
        /\ HighBin(host.sampleRate, k) < LowBin(host.sampleRate, k)
        /\ host.levels[k] = 0

\* The base of every band for one wave value and one Math.random() outcome.
BaseOf(wave, noise) == [i \in Bands |-> DemoBase(wave, noise)]

\* C19: demo synthesis is deterministic: from the same smoothed state and at
\* the same timestamp (the same value of the three sines) a demo tick returns
\* the same band levels, whatever Math.random() returns.
C19_DemoDeterministic ==
    ~LiveBranch(M) =>
        \A w \in Waves, n1, n2 \in Noises :
            GetEQLevels(M, ZeroSnapshot, BaseOf(w, n1))
                = GetEQLevels(M, ZeroSnapshot, BaseOf(w, n2))

\* The color zone of segment j: a function of j and the thresholds alone.
ColorZone(j) == IF j >= 10 THEN "red" ELSE IF j >= 8 THEN "amber" ELSE "blue"

ScenarioHoldExceeded ==
    /\ Len(host.passes) = 4
    /\ host.passes[4] - host.passes[3] > peakHoldTime

\* C21: Scenario A (segmentCount = 12, levels 0.0, 0.5, 1.0, 0.3, hold duration
\* exceeded by tick 4): after tick 4 the band's peak is still 1.0 and its
\* peakSegment is 11.
C21_ScenarioPeakStill1 ==
    ScenarioHoldExceeded =>
        \A i \in Bands :
            state.peakLevels[i] = Scale /\ PeakSegment(state.peakLevels[i]) = 11

\* C21, amended: in Scenario A with the hold duration exceeded by tick 4, the
\* band's peak after tick 4 is 1.0 - peakDecay = 0.98 (one decay step) and its
\* peakSegment is 11.
C21_ScenarioPeakDecayedOnce ==
    ScenarioHoldExceeded =>
        \A i \in Bands :
            /\ state.peakLevels[i] = Scale - peakDecay
            /\ PeakSegment(state.peakLevels[i]) = 11

C21_Witness ==
    /\ ScenarioHoldExceeded
    /\ \A i \in Bands : host.levels[i] = (3 * Scale) \div 10 /\ host.peaks[i] < Scale

C23_PeakSegmentInRange ==
    \A i \in Bands :
        /\ PeakSegment(state.peakLevels[i]) >= 0
        /\ PeakSegment(state.peakLevels[i]) <= eqSegmentCount - 1

\* ------------------------------------------------------------------------
\* Segment renderer: lit count
\* ------------------------------------------------------------------------

\* C28: the number of lit segments of a band, floor(level * eqSegmentCount),
\* lies in [0, eqSegmentCount] for every level getEQLevels returns, in demo
\* mode, in live mode and after a switch between them.
C28_LitCountInRange ==
    \A i \in Bands :
        /\ LitCount(host.levels[i]) >= 0
        /\ LitCount(host.levels[i]) <= eqSegmentCount

\* ------------------------------------------------------------------------
\* Audio source manager: cancellation, routing, controls
\* ------------------------------------------------------------------------

\* C25: stopAudio() called while a microphone activation is suspended on
\* getUserMedia cancels it: when getUserMedia resolves afterwards, the
\* microphone does not become active, audioMode stays 'demo' and no stream is
\* held.
C25_StopCancelsActivation ==
    host.stopped =>
        /\ state.audioMode = "demo"
        /\ state.micStream = Null
        /\ host.liveStreams = {}

\* C27: whenever audioMode is 'mic', the analyser is not connected to
\* audioContext.destination.
C27_MicNotRoutedToOutput == state.audioMode = "mic" => ~host.destConnected

\* C29: between handler steps the MIC button shows its active look (class
\* 'control-btn--active', label 'MIC ON') exactly when audioMode is 'mic'.
C29_MicButtonShowsMode ==
    /\ elements.micBtn.active <=> state.audioMode = "mic"
    /\ elements.micBtn.text = "MIC ON" <=> state.audioMode = "mic"

\* The microphone is live with another activation still suspended.
C29_Witness ==
    /\ state.audioMode = "mic"
    /\ elements.micBtn.active
    /\ InFlight > 0

\* C26: isPlaying is true only if audioMode is 'file' and audioElement is
\* non-null, under every interleaving of togglePlayPause, file selection,
\* toggleMicrophone and its completion, stopAudio and the 'ended' event.
C26_PlayingOnlyInFileMode ==
    state.isPlaying => (state.audioMode = "file" /\ state.audioElement # Null)

\* ------------------------------------------------------------------------
\* Timers
\* ------------------------------------------------------------------------

\* C24: in the setInterval-driven revision, startEQ while the animation is
\* running creates no second timer: at most one interval timer exists at any
\* time, and after stopEQ (eqIntervalId null) no timer is left to run
\* updateEQBars until the next startEQ.
C24_SingleIntervalTimer ==
    /\ Cardinality(host.intervals) <= 1
    /\ state.eqIntervalId = Null => host.intervals = {}

\* switchMode is called with the mode the application is in.
SwitchModeSame == SwitchModeTo(state.currentMode)

\* C30: the uptime interval timer is installed exactly when currentMode is
\* 'terminal', there is never more than one such timer, and switchMode to the
\* current mode changes nothing.
C30_UptimeTimerIffTerminal ==
    /\ [](/\ state.uptimeIntervalId # Null <=> state.currentMode = "terminal"
          /\ host.intervals =
                IF state.currentMode = "terminal" THEN {state.uptimeIntervalId} ELSE {}
          /\ Cardinality(host.intervals) <= 1)
    /\ [][SwitchModeSame => UNCHANGED vars]_vars

\* Back in terminal mode with a new timer, which has fired.
C30_Witness ==
    /\ state.currentMode = "terminal"
    /\ state.uptimeIntervalId \in host.intervals
    /\ state.uptimeIntervalId # 1
    /\ elements.uptimeValue[3] = 2

====
